---- MODULE Spec2Model ----
(***************************************************************************)
(* The greedy VLIW bundle scheduler of drbh/vliw-explore                   *)
(* (src/execute.py, with the src/bundle.py variant of get_registers) and   *)
(* the replay of its schedules (run_program, run_bundle; with the          *)
(* src/rms-norm variant of run_program's return value).                    *)
(* An instruction is the source's 5-tuple <<op, dest, src1, src2, size>>;  *)
(* the absent marker None of the source is the string "None".              *)
(***************************************************************************)
EXTENDS Integers, Sequences, FiniteSets, TLC

VARIABLES
    variant,        \* which source file is in force
    program,        \* the caller's instruction list (argument `instructions`)
    inputs,         \* the caller's input environment (argument `inputs`)
    bundle_size,    \* argument `bundle_size`
    reg_avail,      \* dict register -> cycle at which it is available
    unscheduled,    \* the pending pool
    bundles,        \* the schedule built so far: <<start_cycle, instructions>>
    current_cycle,  \* the scheduler's cycle counter
    stalls,         \* consecutive iterations that took the else branch
    pc,             \* "schedule" inside the while loop, "done" once returned
    call,           \* the caller's position: the number of its current call
    entry,          \* the function the caller has called
    registers,      \* the runner's register file (dict name -> value)
    run_cycle,      \* the runner's simulated clock (its `current_cycle`)
    next_bundle,    \* position of the runner's for loop over the bundles
    rpc,            \* "run" inside the runner, then "returned" or "raised"
    result,         \* what the call returned or raised
    prev            \* what the caller keeps of its previous call

runVars == <<call, entry, registers, run_cycle, next_bundle, rpc, result,
             prev>>

vars == <<variant, program, inputs, bundle_size, reg_avail, unscheduled,
          bundles, current_cycle, stalls, pc, runVars>>

None == "None"

(***************************************************************************)
(* Bounds of the model.                                                    *)
(***************************************************************************)
MaxLen == 3        \* longest program
MaxWidth == 3      \* largest bundle_size
MaxStalls == 3     \* consecutive stall iterations the model follows
StallBudget == 2   \* stall budget against which a hang is judged

Regs == {"R1", "R2"}
Keys == {"in"}

\* The instructions programs are drawn from, in the shapes of the source's
\* example programs: LOAD of an input key, with a size that gives latency 4
\* or -1; STORE of a register (latency 3); and ADD (latency 1) in four
\* shapes: each register computed from the other (a chain, or together a
\* cycle), a register computed from itself and the other one, and a register
\* computed from a register and a name that nothing writes.
LoadInstrs ==
    {<<"LOAD", t[1], t[2], None, t[3]>> : t \in Regs \X Keys \X {16, -40}}
StoreInstrs == {<<"STORE", d, None, None, 1>> : d \in Regs}
AddShapes ==
    {<<"R2", "R1", "R1">>, <<"R1", "R2", "R2">>, <<"R1", "R1", "R2">>,
     <<"R2", "R1", "in">>}
AddInstrs == {<<"ADD", t[1], t[2], t[3], 1>> : t \in AddShapes}
Instrs == LoadInstrs \cup StoreInstrs \cup AddInstrs

Programs == UNION {[1..n -> Instrs] : n \in 0..MaxLen}
\* bundle_size is not checked by the code: 0 and a negative width are
\* among the widths a caller can pass
Widths == (-1)..MaxWidth
InputEnvs == {[k \in Keys |-> 3]}

(***************************************************************************)
(* get_registers: <<dest, srcs>>.                                          *)
(***************************************************************************)
NotNone(r) == r # None

\* src/execute.py: a STORE reads the register in its dest field.
get_registers(instr) ==
    IF instr[1] = "STORE"
    THEN <<None, <<instr[2]>>>>
    ELSE <<instr[2], SelectSeq(<<instr[3], instr[4]>>, NotNone)>>

\* src/bundle.py: no case for STORE.
bundle_get_registers(instr) ==
    <<instr[2], SelectSeq(<<instr[3], instr[4]>>, NotNone)>>

GetRegs(instr) ==
    IF variant = "bundle" THEN bundle_get_registers(instr)
    ELSE get_registers(instr)

Dest(instr) == GetRegs(instr)[1]
Srcs(instr) == GetRegs(instr)[2]
SrcSet(instr) == {Srcs(instr)[i] : i \in 1..Len(Srcs(instr))}

(***************************************************************************)
(* compute_latency: base latency of the kind plus size // 10.              *)
(***************************************************************************)
base_latencies(op) ==
    CASE op = "ADD" -> 1
      [] op = "SUB" -> 1
      [] op = "MUL" -> 2
      [] op = "MOVE" -> 3
      [] op = "LOAD" -> 3
      [] op = "STORE" -> 3
      [] OTHER -> 1

\* Python's floor division by ten.
FloorDiv10(n) == IF n >= 0 THEN n \div 10 ELSE -((-n + 9) \div 10)

compute_latency(instr) == base_latencies(instr[1]) + FloorDiv10(instr[5])

(***************************************************************************)
(* Pre-processing of schedule_instructions: produced, external, reg_avail. *)
(***************************************************************************)
Produced(instrs) ==
    {instrs[i][2] : i \in {j \in 1..Len(instrs) : instrs[j][1] # "STORE"}}

\* Variant of External: every source register, produced or not.
ExternalAll(instrs) ==
    UNION {SrcSet(instrs[i]) : i \in 1..Len(instrs)}

External(instrs) ==
    {r \in UNION {SrcSet(instrs[i]) : i \in 1..Len(instrs)} :
        r \notin Produced(instrs)}

InitialAvail(instrs) == [r \in External(instrs) |-> 0]

(***************************************************************************)
(* One pass of the for loop over a snapshot of the pool.                   *)
(***************************************************************************)
\* Variant of SourcesReady: a register missing from the table defaults to 0.
SourcesReadyDefaultZero(instr, avail, cycle) ==
    \A r \in SrcSet(instr) :
        (IF r \in DOMAIN avail THEN avail[r] ELSE 0) <= cycle

\* any(reg_avail.get(r, inf) > current_cycle for r in srcs) is false
SourcesReady(instr, avail, cycle) ==
    \A r \in SrcSet(instr) : r \in DOMAIN avail /\ avail[r] <= cycle

\* Variant of ConflictWith: the same-destination test is missing.
ConflictWithNoWAW(instr, b) ==
    \/ (Dest(b) # None /\ Dest(b) \in SrcSet(instr))
    \/ (Dest(instr) # None /\ Dest(instr) \in SrcSet(b))

\* Variant of ConflictWith: the test of dest against the member's sources
\* is missing.
ConflictWithNoWAR(instr, b) ==
    \/ (Dest(b) # None /\ Dest(b) \in SrcSet(instr))
    \/ (Dest(instr) # None /\ Dest(instr) = Dest(b))

\* the three-way hazard test of instr against one bundle member b
ConflictWith(instr, b) ==
    \/ (Dest(b) # None /\ Dest(b) \in SrcSet(instr))
    \/ (Dest(instr) # None /\ Dest(instr) = Dest(b))
    \/ (Dest(instr) # None /\ Dest(instr) \in SrcSet(b))

\* Variant of Conflict: instr is tested against the last member only.
ConflictLastOnly(instr, bundle) ==
    bundle # <<>> /\ ConflictWith(instr, bundle[Len(bundle)])

Conflict(instr, bundle) ==
    \E i \in 1..Len(bundle) : ConflictWith(instr, bundle[i])

\* Variant of BundleFull: the bundle counts as full one instruction early.
BundleFullEarly(bundle, width) == Len(bundle) >= width - 1

\* Variant of BundleFull: > in place of >=.
BundleFullOffByOne(bundle, width) == Len(bundle) > width

\* len(current_bundle) >= bundle_size
BundleFull(bundle, width) == Len(bundle) >= width

\* Variant of ListRemove: drops every element equal to instr.
ListRemoveAll(pool, instr) == SelectSeq(pool, LAMBDA x : x # instr)

\* list.remove: drops the first element equal to instr
RECURSIVE ListRemove(_, _)
ListRemove(pool, instr) ==
    IF pool = <<>> THEN <<>>
    ELSE IF Head(pool) = instr THEN Tail(pool)
    ELSE <<Head(pool)>> \o ListRemove(Tail(pool), instr)

\* the for loop from position i of the snapshot on; result <<bundle, pool>>
RECURSIVE ScanFrom(_, _, _, _)
ScanFrom(snapshot, i, bundle, pool) ==
    IF i > Len(snapshot) \/ BundleFull(bundle, bundle_size)
    THEN <<bundle, pool>>
    ELSE LET instr == snapshot[i] IN
         IF ~SourcesReady(instr, reg_avail, current_cycle)
         THEN ScanFrom(snapshot, i + 1, bundle, pool)
         ELSE IF Conflict(instr, bundle)
         THEN ScanFrom(snapshot, i + 1, bundle, pool)
         ELSE ScanFrom(snapshot, i + 1, Append(bundle, instr),
                       ListRemove(pool, instr))

\* the state of the for loop after its first k iterations
ScanPrefix(k) == ScanFrom(SubSeq(unscheduled, 1, k), 1, <<>>, unscheduled)
Scan == ScanPrefix(Len(unscheduled))

(***************************************************************************)
(* Closing a non-empty bundle.                                             *)
(***************************************************************************)
BundleLatency(bundle) ==
    LET L == {compute_latency(bundle[i]) : i \in 1..Len(bundle)}
    IN CHOOSE m \in L : \A x \in L : x <= m

AvailAt(cycle, instr) == cycle + compute_latency(instr)

\* Variant of UpdateAvail: only the bundle's first instruction is recorded.
UpdateAvailFirstOnly(avail, bundle, cycle) ==
    IF bundle = <<>> \/ Dest(Head(bundle)) = None THEN avail
    ELSE [r \in DOMAIN avail \cup {Dest(Head(bundle))} |->
            IF r = Dest(Head(bundle)) THEN AvailAt(cycle, Head(bundle))
            ELSE avail[r]]

\* Variant of UpdateAvail: every destination of the bundle becomes available
\* when the whole bundle has finished.
UpdateAvailBundleMax(avail, bundle, cycle) ==
    LET dests == {Dest(bundle[i]) : i \in 1..Len(bundle)} \ {None}
    IN [r \in DOMAIN avail \cup dests |->
           IF r \in dests THEN cycle + BundleLatency(bundle) ELSE avail[r]]

\* for instr in current_bundle: reg_avail[dest] = current_cycle + latency
RECURSIVE UpdateAvail(_, _, _)
UpdateAvail(avail, bundle, cycle) ==
    IF bundle = <<>> THEN avail
    ELSE LET instr == Head(bundle)
             dest == Dest(instr)
             next == IF dest # None
                     THEN [r \in DOMAIN avail \cup {dest} |->
                             IF r = dest THEN AvailAt(cycle, instr)
                             ELSE avail[r]]
                     ELSE avail
         IN UpdateAvail(next, Tail(bundle), cycle)

\* Variant of NextCycle: a bundle takes one cycle, whatever it holds.
NextCycleOne(cycle, bundle) == cycle + 1

NextCycle(cycle, bundle) == cycle + BundleLatency(bundle)

(***************************************************************************)
(* The state machine: one action per iteration of the while loop.          *)
(***************************************************************************)
\* the locals of schedule_instructions at the head of its while loop
ScheduleEntry(instrs) ==
    /\ reg_avail = InitialAvail(instrs)
    /\ unscheduled = instrs
    /\ bundles = <<>>
    /\ current_cycle = 0
    /\ stalls = 0
    /\ pc = "schedule"

\* the empty dict, and the record of a call that has not ended
EmptyRegisters == [r \in {} |-> 0]
NoResult ==
    [status |-> "none", shape |-> "none", value |-> 0,
     file |-> EmptyRegisters, detail |-> None]
NoPrev ==
    [inputs |-> EmptyRegisters, bundle_size |-> 0, bundles |-> <<>>,
     reg_avail |-> EmptyRegisters, registers |-> EmptyRegisters,
     run_cycle |-> 0, result |-> NoResult]

\* schedule_instructions called on its own: no runner is active
InitWith(v) ==
    /\ variant = v
    /\ program \in Programs
    /\ inputs \in InputEnvs
    /\ bundle_size \in Widths
    /\ ScheduleEntry(program)
    /\ call = 1
    /\ entry = "schedule_instructions"
    /\ registers = EmptyRegisters
    /\ run_cycle = 0
    /\ next_bundle = 1
    /\ rpc = "none"
    /\ result = NoResult
    /\ prev = NoPrev

Init == InitWith("execute")
InitBundle == InitWith("bundle")

\* Variant of EmitBundle: the bundle is appended without the test
\* `if current_bundle`, so an iteration that admitted nothing appends an
\* empty bundle and moves one cycle on.
EmitBundleUntested ==
    /\ pc = "schedule"
    /\ unscheduled # <<>>
    /\ LET current_bundle == Scan[1] IN
        /\ current_bundle = <<>> => stalls < MaxStalls
        /\ reg_avail' = UpdateAvail(reg_avail, current_bundle, current_cycle)
        /\ bundles' = Append(bundles, <<current_cycle, current_bundle>>)
        /\ current_cycle' = IF current_bundle = <<>> THEN current_cycle + 1
                            ELSE NextCycle(current_cycle, current_bundle)
        /\ unscheduled' = Scan[2]
        /\ stalls' = IF current_bundle = <<>> THEN stalls + 1 ELSE 0
    /\ UNCHANGED <<variant, program, inputs, bundle_size, pc, runVars>>

\* Variant of EmitBundle: the pool is the caller's list itself, not a copy,
\* so list.remove takes the admitted instructions out of the program.
EmitBundleInPlace ==
    /\ pc = "schedule"
    /\ unscheduled # <<>>
    /\ LET current_bundle == Scan[1] IN
        /\ current_bundle # <<>>
        /\ reg_avail' = UpdateAvail(reg_avail, current_bundle, current_cycle)
        /\ bundles' = Append(bundles, <<current_cycle, current_bundle>>)
        /\ current_cycle' = NextCycle(current_cycle, current_bundle)
        /\ unscheduled' = Scan[2]
        /\ program' = Scan[2]
    /\ stalls' = 0
    /\ UNCHANGED <<variant, inputs, bundle_size, pc, runVars>>

\* an iteration whose scan admitted something
EmitBundle ==
    /\ pc = "schedule"
    /\ unscheduled # <<>>
    /\ LET current_bundle == Scan[1] IN
        /\ current_bundle # <<>>
        /\ reg_avail' = UpdateAvail(reg_avail, current_bundle, current_cycle)
        /\ bundles' = Append(bundles, <<current_cycle, current_bundle>>)
        /\ current_cycle' = NextCycle(current_cycle, current_bundle)
        /\ unscheduled' = Scan[2]
    /\ stalls' = 0
    /\ UNCHANGED <<variant, program, inputs, bundle_size, pc, runVars>>

\* an iteration whose scan admitted nothing
Stall ==
    /\ pc = "schedule"
    /\ unscheduled # <<>>
    /\ Scan[1] = <<>>
    /\ stalls < MaxStalls
    /\ current_cycle' = current_cycle + 1
    /\ stalls' = stalls + 1
    /\ UNCHANGED <<variant, program, inputs, bundle_size, reg_avail,
                   unscheduled, bundles, pc, runVars>>

\* the pool is empty: return bundles
Return ==
    /\ pc = "schedule"
    /\ unscheduled = <<>>
    /\ pc' = "done"
    /\ UNCHANGED <<variant, program, inputs, bundle_size, reg_avail,
                   unscheduled, bundles, current_cycle, stalls, runVars>>

Next == EmitBundle \/ Stall \/ Return

Spec == Init /\ [][Next]_vars
SpecBundle == InitBundle /\ [][Next]_vars

(***************************************************************************)
(* execute_instruction. The outcome is a record: status "ok" with the      *)
(* updated register file, or the exception raised ("KeyError" for a        *)
(* missing input key or register, "ValueError" for an unknown kind) with   *)
(* the register file as it was and the offending name in `detail`.         *)
(***************************************************************************)
Put(regs, k, v) ==
    [r \in DOMAIN regs \cup {k} |-> IF r = k THEN v ELSE regs[r]]

Done(regs) == [status |-> "ok", regs |-> regs, detail |-> None]
Raised(kind, regs, name) == [status |-> kind, regs |-> regs, detail |-> name]

\* dict[name] for each name in turn: the first name the dict lacks
FirstMissing(names, dict) ==
    LET bad == {i \in 1..Len(names) : names[i] \notin DOMAIN dict}
    IN IF bad = {} THEN 0 ELSE CHOOSE i \in bad : \A j \in bad : i <= j

\* the arithmetic kinds: registers[dest] = registers[src1] <op> registers[src2]
Arith(instr, regs, v) ==
    LET miss == FirstMissing(<<instr[3], instr[4]>>, regs)
    IN IF miss = 0 THEN Done(Put(regs, instr[2], v))
       ELSE Raised("KeyError", regs, <<instr[3], instr[4]>>[miss])

\* Variant of execute_instruction: a STORE leaves an OUTPUT that is already
\* there as it is.
execute_instruction_first_store(instr, regs, ins) ==
    LET op == instr[1]
        dest == instr[2]
        src1 == instr[3]
        src2 == instr[4]
    IN CASE op = "LOAD" ->
              IF src1 \in DOMAIN ins THEN Done(Put(regs, dest, ins[src1]))
              ELSE Raised("KeyError", regs, src1)
         [] op = "STORE" ->
              IF dest \in DOMAIN regs
              THEN IF "OUTPUT" \in DOMAIN regs THEN Done(regs)
                   ELSE Done(Put(regs, "OUTPUT", regs[dest]))
              ELSE Raised("KeyError", regs, dest)
         [] op = "ADD" ->
              Arith(instr, regs, IF {src1, src2} \subseteq DOMAIN regs
                                 THEN regs[src1] + regs[src2] ELSE 0)
         [] op = "SUB" ->
              Arith(instr, regs, IF {src1, src2} \subseteq DOMAIN regs
                                 THEN regs[src1] - regs[src2] ELSE 0)
         [] op = "MUL" ->
              Arith(instr, regs, IF {src1, src2} \subseteq DOMAIN regs
                                 THEN regs[src1] * regs[src2] ELSE 0)
         [] op = "MOVE" ->
              IF src1 \in DOMAIN regs THEN Done(Put(regs, dest, regs[src1]))
              ELSE Raised("KeyError", regs, src1)
         [] OTHER -> Raised("ValueError", regs, op)

\* Variant of execute_instruction: an unknown kind is skipped.
execute_instruction_skip(instr, regs, ins) ==
    LET op == instr[1]
        dest == instr[2]
        src1 == instr[3]
        src2 == instr[4]
    IN CASE op = "LOAD" ->
              IF src1 \in DOMAIN ins THEN Done(Put(regs, dest, ins[src1]))
              ELSE Raised("KeyError", regs, src1)
         [] op = "STORE" ->
              IF dest \in DOMAIN regs THEN Done(Put(regs, "OUTPUT", regs[dest]))
              ELSE Raised("KeyError", regs, dest)
         [] op = "ADD" ->
              Arith(instr, regs, IF {src1, src2} \subseteq DOMAIN regs
                                 THEN regs[src1] + regs[src2] ELSE 0)
         [] op = "SUB" ->
              Arith(instr, regs, IF {src1, src2} \subseteq DOMAIN regs
                                 THEN regs[src1] - regs[src2] ELSE 0)
         [] op = "MUL" ->
              Arith(instr, regs, IF {src1, src2} \subseteq DOMAIN regs
                                 THEN regs[src1] * regs[src2] ELSE 0)
         [] op = "MOVE" ->
              IF src1 \in DOMAIN regs THEN Done(Put(regs, dest, regs[src1]))
              ELSE Raised("KeyError", regs, src1)
         [] OTHER -> Done(regs)

\* Variant of execute_instruction: a LOAD of an absent key loads 0.
execute_instruction_default(instr, regs, ins) ==
    LET op == instr[1]
        dest == instr[2]
        src1 == instr[3]
        src2 == instr[4]
    IN CASE op = "LOAD" ->
              IF src1 \in DOMAIN ins THEN Done(Put(regs, dest, ins[src1]))
              ELSE Done(Put(regs, dest, 0))
         [] op = "STORE" ->
              IF dest \in DOMAIN regs THEN Done(Put(regs, "OUTPUT", regs[dest]))
              ELSE Raised("KeyError", regs, dest)
         [] op = "ADD" ->
              Arith(instr, regs, IF {src1, src2} \subseteq DOMAIN regs
                                 THEN regs[src1] + regs[src2] ELSE 0)
         [] op = "SUB" ->
              Arith(instr, regs, IF {src1, src2} \subseteq DOMAIN regs
                                 THEN regs[src1] - regs[src2] ELSE 0)
         [] op = "MUL" ->
              Arith(instr, regs, IF {src1, src2} \subseteq DOMAIN regs
                                 THEN regs[src1] * regs[src2] ELSE 0)
         [] op = "MOVE" ->
              IF src1 \in DOMAIN regs THEN Done(Put(regs, dest, regs[src1]))
              ELSE Raised("KeyError", regs, src1)
         [] OTHER -> Raised("ValueError", regs, op)

\* Variant of execute_instruction: MUL multiplies src1 by itself.
execute_instruction_square(instr, regs, ins) ==
    LET op == instr[1]
        dest == instr[2]
        src1 == instr[3]
        src2 == instr[4]
    IN CASE op = "LOAD" ->
              IF src1 \in DOMAIN ins THEN Done(Put(regs, dest, ins[src1]))
              ELSE Raised("KeyError", regs, src1)
         [] op = "STORE" ->
              IF dest \in DOMAIN regs THEN Done(Put(regs, "OUTPUT", regs[dest]))
              ELSE Raised("KeyError", regs, dest)
         [] op = "ADD" ->
              Arith(instr, regs, IF {src1, src2} \subseteq DOMAIN regs
                                 THEN regs[src1] + regs[src2] ELSE 0)
         [] op = "SUB" ->
              Arith(instr, regs, IF {src1, src2} \subseteq DOMAIN regs
                                 THEN regs[src1] - regs[src2] ELSE 0)
         [] op = "MUL" ->
              Arith(instr, regs, IF {src1, src2} \subseteq DOMAIN regs
                                 THEN regs[src1] * regs[src1] ELSE 0)
         [] op = "MOVE" ->
              IF src1 \in DOMAIN regs THEN Done(Put(regs, dest, regs[src1]))
              ELSE Raised("KeyError", regs, src1)
         [] OTHER -> Raised("ValueError", regs, op)

execute_instruction(instr, regs, ins) ==
    LET op == instr[1]
        dest == instr[2]
        src1 == instr[3]
        src2 == instr[4]
    IN CASE op = "LOAD" ->
              IF src1 \in DOMAIN ins THEN Done(Put(regs, dest, ins[src1]))
              ELSE Raised("KeyError", regs, src1)
         [] op = "STORE" ->
              IF dest \in DOMAIN regs THEN Done(Put(regs, "OUTPUT", regs[dest]))
              ELSE Raised("KeyError", regs, dest)
         [] op = "ADD" ->
              Arith(instr, regs, IF {src1, src2} \subseteq DOMAIN regs
                                 THEN regs[src1] + regs[src2] ELSE 0)
         [] op = "SUB" ->
              Arith(instr, regs, IF {src1, src2} \subseteq DOMAIN regs
                                 THEN regs[src1] - regs[src2] ELSE 0)
         [] op = "MUL" ->
              Arith(instr, regs, IF {src1, src2} \subseteq DOMAIN regs
                                 THEN regs[src1] * regs[src2] ELSE 0)
         [] op = "MOVE" ->
              IF src1 \in DOMAIN regs THEN Done(Put(regs, dest, regs[src1]))
              ELSE Raised("KeyError", regs, src1)
         [] OTHER -> Raised("ValueError", regs, op)

\* the inner for loop of a runner: the instructions of one bundle in the
\* bundle's order, up to the first exception
RECURSIVE ExecSeq(_, _, _)
ExecSeq(instrs, regs, ins) ==
    IF instrs = <<>> THEN Done(regs)
    ELSE LET r == execute_instruction(Head(instrs), regs, ins)
         IN IF r.status = "ok" THEN ExecSeq(Tail(instrs), r.regs, ins)
            ELSE r

\* Variant of WaitUntil: the clock is never moved up to the start cycle.
WaitUntilNever(clock, cycle) == clock

\* `if current_cycle < cycle: current_cycle = cycle`
WaitUntil(clock, cycle) == IF clock < cycle THEN cycle ELSE clock

(***************************************************************************)
(* What a runner hands back. registers.get("OUTPUT", None) is a value or   *)
(* None; run_program of src/rms-norm hands back the whole register file.   *)
(***************************************************************************)
Returned(shape, value, file) ==
    [status |-> "returned", shape |-> shape, value |-> value, file |-> file,
     detail |-> None]

OutputOf(regs) ==
    IF "OUTPUT" \in DOMAIN regs
    THEN Returned("value", regs["OUTPUT"], EmptyRegisters)
    ELSE Returned("None", 0, EmptyRegisters)

run_program_result(regs) == OutputOf(regs)
rms_run_program_result(regs) == Returned("dict", 0, regs)
run_bundle_result(regs) == OutputOf(regs)

RunnerResult(regs) ==
    IF entry = "run_bundle" THEN run_bundle_result(regs)
    ELSE IF variant = "rms" THEN rms_run_program_result(regs)
    ELSE run_program_result(regs)

\* Variant of RunnerEntry: the register file of the earlier call is kept.
RunnerEntryKept(left) == left

\* the register file a runner starts from, whatever an earlier call left
RunnerEntry(left) == EmptyRegisters

\* run_bundle as a function of its arguments: the outer for loop from the
\* empty register file, then the return
RECURSIVE ReplayAll(_, _, _)
ReplayAll(bs, regs, ins) ==
    IF bs = <<>> THEN Done(regs)
    ELSE LET r == ExecSeq(Head(bs)[2], regs, ins)
         IN IF r.status = "ok" THEN ReplayAll(Tail(bs), r.regs, ins)
            ELSE r

run_bundle(bs, ins) ==
    LET r == ReplayAll(bs, EmptyRegisters, ins)
    IN IF r.status = "ok" THEN run_bundle_result(r.regs)
       ELSE [status |-> r.status, shape |-> "none", value |-> 0,
             file |-> EmptyRegisters, detail |-> r.detail]

(***************************************************************************)
(* The inputs of the runs: every program of up to MaxRunLen distinct       *)
(* instructions out of RunInstrs, at the widths 0..MaxRunWidth, and the    *)
(* program of __main__ at the widths 1, 2, 4 and 50.                       *)
(***************************************************************************)
MaxRunLen == 4     \* longest program of RunPrograms
MaxRunWidth == 3   \* largest bundle_size of RunWidths

\* two LOADs of different keys, an ADD that doubles R1 into R2, a MOVE
\* whose source is the name of an input key, a STORE of each register, and
\* an instruction of a kind that execute_instruction does not know
RunInstrs ==
    {<<"LOAD", "R1", "a", None, 16>>,
     <<"LOAD", "R2", "b", None, 16>>,
     <<"ADD", "R2", "R1", "R1", 1>>,
     <<"MOVE", "R2", "a", None, 1>>,
     <<"STORE", "R1", None, None, 1>>,
     <<"STORE", "R2", None, None, 1>>,
     <<"NOP", "R3", "R1", None, 1>>}

RunPrograms ==
    {p \in UNION {[1..n -> RunInstrs] : n \in 0..MaxRunLen} :
        \A i, j \in 1..Len(p) : i # j => p[i] # p[j]}
RunWidths == 0..MaxRunWidth

\* the environment of the first call, and the environments a schedule is
\* replayed against: the same one, and one with another value and no "b"
RunInputs == [k \in {"a", "b"} |-> IF k = "a" THEN 3 ELSE 5]
ReplayEnvs == {RunInputs, [k \in {"a"} |-> 4]}

ExampleProgram ==
    <<<<"LOAD", "R1", "input0", None, 16>>,
      <<"LOAD", "R2", "input1", None, 16>>,
      <<"ADD", "R3", "R1", "R2", 1>>,
      <<"LOAD", "R4", "input2", None, 16>>,
      <<"MUL", "R5", "R3", "R4", 1>>,
      <<"STORE", "R5", None, None, 1>>>>
ExampleInputs ==
    [k \in {"input0", "input1", "input2"} |->
        CASE k = "input0" -> 3 [] k = "input1" -> 5 [] OTHER -> 10]
ExampleWidths == {1, 2, 4, 50}

RunCases ==
    (RunPrograms \X {RunInputs} \X RunWidths)
        \cup ({ExampleProgram} \X {ExampleInputs} \X ExampleWidths)

\* the widths of a second run_program call on the same program
SecondWidths ==
    IF program = ExampleProgram THEN ExampleWidths ELSE RunWidths

(***************************************************************************)
(* The runners. run_program schedules (the scheduler's actions above),     *)
(* then replays; run_bundle replays a schedule it is given. One action per *)
(* iteration of the for loop over the bundles.                             *)
(***************************************************************************)
InitRun(v) ==
    /\ variant = v
    /\ \E c \in RunCases :
          /\ program = c[1]
          /\ inputs = c[2]
          /\ bundle_size = c[3]
    /\ ScheduleEntry(program)
    /\ call = 1
    /\ entry = "run_program"
    /\ registers = RunnerEntry(EmptyRegisters)
    /\ run_cycle = 0
    /\ next_bundle = 1
    /\ rpc = "run"
    /\ result = NoResult
    /\ prev = NoPrev

Replaying == rpc = "run" /\ pc = "done"

\* one bundle replayed to its end
ExecBundle ==
    /\ Replaying
    /\ next_bundle <= Len(bundles)
    /\ LET cycle == bundles[next_bundle][1]
           bundle == bundles[next_bundle][2]
           out == ExecSeq(bundle, registers, inputs)
       IN /\ out.status = "ok"
          /\ registers' = out.regs
          /\ run_cycle' = WaitUntil(run_cycle, cycle) + BundleLatency(bundle)
    /\ next_bundle' = next_bundle + 1
    /\ UNCHANGED <<variant, program, inputs, bundle_size, reg_avail,
                   unscheduled, bundles, current_cycle, stalls, pc, call,
                   entry, rpc, result, prev>>

\* an instruction of the bundle raises: the exception leaves the runner
RaiseInBundle ==
    /\ Replaying
    /\ next_bundle <= Len(bundles)
    /\ LET cycle == bundles[next_bundle][1]
           bundle == bundles[next_bundle][2]
           out == ExecSeq(bundle, registers, inputs)
       IN /\ out.status # "ok"
          /\ registers' = out.regs
          /\ run_cycle' = WaitUntil(run_cycle, cycle)
          /\ result' = [status |-> out.status, shape |-> "none", value |-> 0,
                        file |-> EmptyRegisters, detail |-> out.detail]
    /\ rpc' = "raised"
    /\ UNCHANGED <<variant, program, inputs, bundle_size, reg_avail,
                   unscheduled, bundles, current_cycle, stalls, pc, call,
                   entry, next_bundle, prev>>

\* the for loop is over: return
RunnerReturn ==
    /\ Replaying
    /\ next_bundle > Len(bundles)
    /\ rpc' = "returned"
    /\ result' = RunnerResult(registers)
    /\ UNCHANGED <<variant, program, inputs, bundle_size, reg_avail,
                   unscheduled, bundles, current_cycle, stalls, pc, call,
                   entry, registers, run_cycle, next_bundle, prev>>

(***************************************************************************)
(* The caller, as __main__: after its first run_program has ended it calls *)
(* run_program again on the same program and inputs, at the same or a      *)
(* larger width, or replays the schedule it holds with run_bundle, once    *)
(* and then once more, each time against inputs of its choice.             *)
(***************************************************************************)
Ended == rpc \in {"returned", "raised"}

Kept ==
    [inputs |-> inputs, bundle_size |-> bundle_size, bundles |-> bundles,
     reg_avail |-> reg_avail, registers |-> registers,
     run_cycle |-> run_cycle, result |-> result]

\* Variant of CallRunProgram: the scheduler's cycle counter outlives the
\* call, so the second schedule starts where the first one stopped.
CallRunProgramWarmClock ==
    /\ call = 1
    /\ Ended
    /\ \E w \in SecondWidths :
          /\ w >= bundle_size
          /\ bundle_size' = w
    /\ prev' = Kept
    /\ call' = 2
    /\ entry' = "run_program"
    /\ reg_avail' = InitialAvail(program)
    /\ unscheduled' = program
    /\ bundles' = <<>>
    /\ stalls' = 0
    /\ pc' = "schedule"
    /\ registers' = RunnerEntry(registers)
    /\ run_cycle' = 0
    /\ next_bundle' = 1
    /\ rpc' = "run"
    /\ result' = NoResult
    /\ UNCHANGED <<variant, program, inputs, current_cycle>>

CallRunProgram ==
    /\ call = 1
    /\ Ended
    /\ \E w \in SecondWidths :
          /\ w >= bundle_size
          /\ bundle_size' = w
    /\ prev' = Kept
    /\ call' = 2
    /\ entry' = "run_program"
    /\ reg_avail' = InitialAvail(program)
    /\ unscheduled' = program
    /\ bundles' = <<>>
    /\ current_cycle' = 0
    /\ stalls' = 0
    /\ pc' = "schedule"
    /\ registers' = RunnerEntry(registers)
    /\ run_cycle' = 0
    /\ next_bundle' = 1
    /\ rpc' = "run"
    /\ result' = NoResult
    /\ UNCHANGED <<variant, program, inputs>>

CallRunBundle ==
    /\ call = 1 \/ (call = 2 /\ entry = "run_bundle")
    /\ Ended
    /\ \E env \in ReplayEnvs \cup {inputs} : inputs' = env
    /\ prev' = Kept
    /\ call' = call + 1
    /\ entry' = "run_bundle"
    /\ registers' = RunnerEntry(registers)
    /\ run_cycle' = 0
    /\ next_bundle' = 1
    /\ rpc' = "run"
    /\ result' = NoResult
    /\ UNCHANGED <<variant, program, bundle_size, reg_avail, unscheduled,
                   bundles, current_cycle, stalls, pc>>

NextRun ==
    \/ EmitBundle \/ Stall \/ Return
    \/ ExecBundle \/ RaiseInBundle \/ RunnerReturn
    \/ CallRunProgram \/ CallRunBundle

SpecRun == InitRun("execute") /\ [][NextRun]_vars

\* src/rms-norm/rms-vliw.py: the same scheduler and runners, except for the
\* kind DIV, which no program here holds, and for what run_program returns
SpecRms == InitRun("rms") /\ [][NextRun]_vars

(***************************************************************************)
(* Vocabulary of the properties.                                           *)
(***************************************************************************)
Range(seq) == {seq[i] : i \in 1..Len(seq)}
Count(seq, x) == Cardinality({i \in 1..Len(seq) : seq[i] = x})

\* the instructions of all bundles, in schedule order
RECURSIVE Flatten(_)
Flatten(bs) == IF bs = <<>> THEN <<>> ELSE Head(bs)[2] \o Flatten(Tail(bs))

Start(b) == bundles[b][1]
Members(b) == bundles[b][2]

\* instruction j writes a register that instruction i reads
DependsOn(instrs, i, j) ==
    Dest(instrs[j]) # None /\ Dest(instrs[j]) \in SrcSet(instrs[i])

\* repeatedly drop the instructions none of whose producers is left
RECURSIVE Peel(_, _)
Peel(instrs, S) ==
    LET free == {i \in S : \A j \in S : ~DependsOn(instrs, i, j)}
    IN IF free = {} THEN S ELSE Peel(instrs, S \ free)

Acyclic(instrs) == Peel(instrs, 1..Len(instrs)) = {}

Resolvable(instrs) ==
    \A i \in 1..Len(instrs) : \A r \in SrcSet(instrs[i]) :
        r \in Produced(instrs) \/ r \in External(instrs)

\* some writer of r sits in a bundle before bundle b and has completed by
\* the time bundle b starts
ProducedBefore(r, b) ==
    \E a \in 1..(b - 1) : \E p \in Range(Members(a)) :
        /\ Dest(p) = r
        /\ Start(a) + compute_latency(p) <= Start(b)

\* C1: when schedule_instructions returns, the bundles hold exactly the
\* instructions of the program, each as many times as the program holds it;
\* on the way, every instruction is either still pending or in one bundle.
C1_ExactlyOnce ==
    /\ \A x \in Range(program) \cup Range(Flatten(bundles)) \cup Range(unscheduled) :
          Count(program, x) = Count(Flatten(bundles), x) + Count(unscheduled, x)
    /\ pc = "done" =>
          \A x \in Range(program) \cup Range(Flatten(bundles)) :
              Count(program, x) = Count(Flatten(bundles), x)

\* a returned schedule of a program that holds the same tuple twice
C1_Witness ==
    /\ pc = "done"
    /\ Len(bundles) >= 2
    /\ \E i, j \in 1..Len(program) : i < j /\ program[i] = program[j]

\* the enabling condition of Next: the loop returns, emits a bundle, or
\* takes a stall that the model follows
LoopContinues ==
    /\ pc = "schedule"
    /\ (unscheduled = <<>> \/ Scan[1] # <<>> \/ stalls < MaxStalls)

\* C2: for an acyclic program all of whose source registers are produced or
\* external, and a width of at least 1, the scheduler reaches its return:
\* until it has returned, the loop always has a next iteration that the
\* model follows, so it never stalls MaxStalls times in a row. Every run of
\* the model is finite (an iteration shrinks the pool or lengthens a bounded
\* run of stalls), so such a program's run ends in the return.
C2_Terminates ==
    (Acyclic(program) /\ Resolvable(program) /\ bundle_size >= 1) =>
        (pc = "done" \/ LoopContinues)

\* an acyclic program with a dependency, scheduled to the end
C2_Witness ==
    /\ pc = "done"
    /\ bundle_size >= 1
    /\ Acyclic(program)
    /\ \E i, j \in 1..Len(program) : DependsOn(program, i, j)
    /\ Len(bundles) >= 2

\* C3: an instruction admitted at cycle C has every source in the
\* availability table at a cycle <= C; in the schedule, every source that
\* the program computes has a writer in a strictly earlier bundle whose start
\* plus latency is <= the start of the reader's bundle, and an external
\* source (available at 0) is read at a start >= 0.
C3_SourcesAvailable ==
    /\ pc = "schedule" =>
          \A instr \in Range(Scan[1]) :
              \A r \in SrcSet(instr) :
                  r \in DOMAIN reg_avail /\ reg_avail[r] <= current_cycle
    /\ \A b \in 1..Len(bundles) : \A instr \in Range(Members(b)) :
          \A r \in SrcSet(instr) :
              IF r \in Produced(program) THEN ProducedBefore(r, b)
              ELSE 0 <= Start(b)

\* a reader of a computed register in a later bundle than its writer
C3_Witness ==
    /\ pc = "done"
    /\ \E b \in 2..Len(bundles) : \E instr \in Range(Members(b)) :
          \E r \in SrcSet(instr) : r \in Produced(program)

\* C4: a STORE is scheduled as a reader of its operand: when the program
\* computes the operand, a writer of it has completed in an earlier bundle
\* before the STORE's bundle starts; and a register that only STOREs name
\* keeps the availability it started with.
C4_StoreReadsOperand ==
    /\ \A b \in 1..Len(bundles) : \A instr \in Range(Members(b)) :
          (instr[1] = "STORE" /\ instr[2] \in Produced(program)) =>
              \E a \in 1..(b - 1) : \E p \in Range(Members(a)) :
                  /\ p[1] # "STORE"
                  /\ p[2] = instr[2]
                  /\ Start(a) + compute_latency(p) <= Start(b)
    /\ \A r \in DOMAIN reg_avail :
          r \notin Produced(program) => reg_avail[r] = 0

\* C5: no bundle, finished or under construction, holds two instructions
\* that write the same destination register.
NoWAW(members) ==
    \A i, j \in 1..Len(members) :
        (i # j /\ Dest(members[i]) # None) => Dest(members[i]) # Dest(members[j])

C5_NoIntraBundleWAW ==
    /\ \A b \in 1..Len(bundles) : NoWAW(Members(b))
    /\ pc = "schedule" => NoWAW(Scan[1])

\* two writers of one register, the later one ready from the start, kept
\* apart although the first one's bundle had room
C5_Witness ==
    /\ pc = "done"
    /\ \E a, b \in 1..Len(bundles) :
          /\ a < b
          /\ Len(Members(a)) < bundle_size
          /\ \E p \in Range(Members(a)) : \E q \in Range(Members(b)) :
                /\ Dest(p) # None
                /\ Dest(p) = Dest(q)
                /\ SrcSet(q) \subseteq External(program)
                /\ Start(a) >= 0

\* C6: no bundle, finished or under construction, holds two instructions of
\* which one writes a register the other reads, in either order.
NoRAWWAR(members) ==
    \A i, j \in 1..Len(members) :
        (i # j /\ Dest(members[i]) # None) =>
            Dest(members[i]) \notin SrcSet(members[j])

C6_NoIntraBundleRAWWAR ==
    /\ \A b \in 1..Len(bundles) : NoRAWWAR(Members(b))
    /\ pc = "schedule" => NoRAWWAR(Scan[1])

\* a reader of r in one bundle and an always-ready writer of r deferred to a
\* later bundle although the reader's bundle had room
C6_Witness ==
    /\ pc = "done"
    /\ \E a, b \in 1..Len(bundles) :
          /\ a < b
          /\ Len(Members(a)) < bundle_size
          /\ Start(a) >= 0
          /\ \E p \in Range(Members(a)) : \E q \in Range(Members(b)) :
                /\ Dest(q) # None
                /\ Dest(q) \in SrcSet(p)
                /\ Dest(q) \notin {Dest(x) : x \in Range(Members(a))}
                /\ SrcSet(q) \subseteq External(program)

\* C7 as stated: every bundle of the schedule holds at most bundle_size
\* instructions, and so does the bundle under construction after each step
\* of the scan.
C7_WidthRespected ==
    /\ \A b \in 1..Len(bundles) : Len(Members(b)) <= bundle_size
    /\ pc = "schedule" =>
          \A k \in 0..Len(unscheduled) : Len(ScanPrefix(k)[1]) <= bundle_size

\* the most instructions a bundle under construction can hold: the empty
\* bundle holds 0 instructions, which is more than a negative width
Room == IF bundle_size < 0 THEN 0 ELSE bundle_size

\* C7, amended: every bundle of the schedule holds at most bundle_size
\* instructions, and the bundle under construction holds, after each step
\* of the scan, at most bundle_size instructions, or none if bundle_size
\* is negative.
C7_WidthRespectedFromZero ==
    /\ \A b \in 1..Len(bundles) : Len(Members(b)) <= bundle_size
    /\ pc = "schedule" =>
          \A k \in 0..Len(unscheduled) : Len(ScanPrefix(k)[1]) <= Room

\* a bundle filled to the width while a ready instruction had to wait
C7_Witness ==
    /\ pc = "done"
    /\ bundle_size >= 2
    /\ \E b \in 1..(Len(bundles) - 1) :
          /\ Len(Members(b)) = bundle_size
          /\ \E q \in Range(Members(b + 1)) :
                /\ SrcSet(q) \subseteq External(program)
                /\ ~Conflict(q, Members(b))
                /\ Start(b) >= 0

\* C8: with a cyclic program (and a width of at least 1) the scheduler
\* never stalls more than StallBudget times in a row: it has stopped with a
\* failure by then.
C8_StallBudgetEnforced ==
    (~Acyclic(program) /\ bundle_size >= 1) => stalls <= StallBudget

\* C9: a program whose sole instruction reads a register that the program
\* does not produce and the inputs do not supply does not keep the
\* scheduler stalling: the run comes to an end.
SoleDangling ==
    /\ Len(program) = 1
    /\ \E r \in SrcSet(program[1]) :
          r \notin Produced(program) /\ r \notin DOMAIN inputs

C9_SoleDanglingEnds ==
    (SoleDangling /\ bundle_size >= 1) => stalls <= StallBudget

\* C10: in a returned schedule the start cycles never decrease along the
\* list.
C10_MonotoneStarts ==
    pc = "done" =>
        \A a, b \in 1..Len(bundles) : a < b => Start(a) <= Start(b)

\* C11: compute_latency returns, for every kind and every size, a
\* non-negative integer equal to the kind's base latency plus the floor of
\* size / 10, an unknown kind counting with base 1. Stated of the latencies
\* the scheduler has computed: those of the instructions of closed bundles.
C11_LatencyContract ==
    \A b \in 1..Len(bundles) : \A p \in Range(Members(b)) :
        /\ compute_latency(p) \in Nat
        /\ compute_latency(p) = base_latencies(p[1]) + FloorDiv10(p[5])

\* the second call has the arguments of the first: run_program at the same
\* width, or run_bundle on the schedule of the first call with its inputs
SameCallAgain ==
    /\ call = 2
    /\ inputs = prev.inputs
    /\ entry = "run_program" => bundle_size = prev.bundle_size

\* C12: scheduling and replay are deterministic. A second invocation of
\* schedule_instructions on the same program and width returns the bundle
\* sequence of the first (start cycles and instructions, in order), and a
\* second replay of the same schedule against the same inputs ends with the
\* register values and the result (output or exception) of the prev.
C12_Deterministic ==
    SameCallAgain =>
        /\ pc = "done" => bundles = prev.bundles
        /\ Ended => /\ registers = prev.registers
                    /\ result = prev.result

\* a second run_program at the same width that has returned an output from
\* a schedule of several bundles
C12_Witness ==
    /\ SameCallAgain
    /\ entry = "run_program"
    /\ rpc = "returned"
    /\ result.shape = "value"
    /\ Len(bundles) >= 2

\* the call is run_program on the program of __main__ with its inputs
ExampleCall ==
    /\ entry = "run_program"
    /\ program = ExampleProgram
    /\ inputs = ExampleInputs
    /\ bundle_size \in ExampleWidths

\* C13: the program of __main__ (LOAD R1, LOAD R2, ADD R3 = R1 + R2,
\* LOAD R4, MUL R5 = R3 * R4, STORE R5), run with input0 = 3, input1 = 5,
\* input2 = 10, executes to output 80 at each of the widths 1, 2, 4, 50:
\* the run does not raise, its scheduling is never left without a next
\* iteration, and what it returns is the value 80.
C13_ExampleGives80 ==
    ExampleCall =>
        /\ rpc # "raised"
        /\ rpc = "run" => (pc = "done" \/ LoopContinues)
        /\ rpc = "returned" => result.shape = "value" /\ result.value = 80

\* the example has returned at width 50
C13_Witness ==
    /\ ExampleCall
    /\ bundle_size = 50
    /\ rpc = "returned"
    /\ call = 1

\* C14: at bundle width 1 every bundle of the schedule holds exactly one
\* instruction, so the returned schedule has as many bundles as the program
\* has instructions.
C14_WidthOneSingletons ==
    bundle_size = 1 =>
        /\ \A b \in 1..Len(bundles) : Len(Members(b)) = 1
        /\ pc = "done" => Len(bundles) = Len(program)

\* a returned width-1 schedule of a program of three instructions, two of
\* which were ready in the same cycle
C14_Witness ==
    /\ bundle_size = 1
    /\ pc = "done"
    /\ Len(program) = 3
    /\ \E i, j \in 1..Len(program) :
          /\ i # j
          /\ SourcesReady(program[i], InitialAvail(program), 0)
          /\ SourcesReady(program[j], InitialAvail(program), 0)

(***************************************************************************)
(* Vocabulary of the replay properties: what an instruction reads from and *)
(* writes to the register file, told from its fields alone.                *)
(***************************************************************************)
KnownKinds == {"LOAD", "STORE", "ADD", "SUB", "MUL", "MOVE"}

ExecReads(instr) ==
    CASE instr[1] = "STORE" -> {instr[2]}
      [] instr[1] \in {"ADD", "SUB", "MUL"} -> {instr[3], instr[4]}
      [] instr[1] = "MOVE" -> {instr[3]}
      [] OTHER -> {}

ExecWrites(instr) == IF instr[1] = "STORE" THEN "OUTPUT" ELSE instr[2]

\* the schedule as one list, and how much of it the replay has behind it
Flat == Flatten(bundles)
ExecutedCount == Len(Flatten(SubSeq(bundles, 1, next_bundle - 1)))

WrittenBefore(i) == {ExecWrites(Flat[j]) : j \in 1..(i - 1)}

MissingInput(i) == Flat[i][1] = "LOAD" /\ Flat[i][3] \notin DOMAIN inputs
UnwrittenRead(i) == \E r \in ExecReads(Flat[i]) : r \notin WrittenBefore(i)
UnknownKind(i) == Flat[i][1] \notin KnownKinds

\* the first instruction in schedule order that cannot be executed; 0 if
\* every instruction can
FirstBad ==
    LET bad == {i \in 1..Len(Flat) :
                   MissingInput(i) \/ UnwrittenRead(i) \/ UnknownKind(i)}
    IN IF bad = {} THEN 0 ELSE CHOOSE i \in bad : \A j \in bad : i <= j

\* a runner is replaying the schedule or has ended
InReplay == pc = "done" /\ rpc \in {"run", "returned", "raised"}

\* C15: replay aborts the whole run when a LOAD names a key that is absent
\* from the inputs or an instruction reads a register that no earlier
\* instruction of this run has written (an input key is no register): the
\* replay never gets past such an instruction, never returns from a
\* schedule that holds one, and when it is the first instruction that
\* cannot be executed the run ends in the KeyError naming the key or
\* register, with no register file and no output handed back.
C15_MissingAborts ==
    InReplay =>
        /\ \A i \in 1..ExecutedCount : ~MissingInput(i) /\ ~UnwrittenRead(i)
        /\ rpc = "returned" => ExecutedCount = Len(Flat)
        /\ (rpc = "raised" /\ result.status = "KeyError") =>
              /\ FirstBad > ExecutedCount
              /\ MissingInput(FirstBad) \/ UnwrittenRead(FirstBad)
              /\ result.shape = "none"
              /\ \/ MissingInput(FirstBad) /\ result.detail = Flat[FirstBad][3]
                 \/ result.detail \in ExecReads(Flat[FirstBad])
                                        \ WrittenBefore(FirstBad)
        /\ (rpc = "raised" /\ FirstBad # 0 /\ ~UnknownKind(FirstBad)) =>
              result.status = "KeyError"

\* a replay that raised on a LOAD of an absent key after it had replayed a
\* bundle
C15_Witness ==
    /\ InReplay
    /\ rpc = "raised"
    /\ result.status = "KeyError"
    /\ MissingInput(FirstBad)
    /\ next_bundle > 1

\* instruction i of the schedule is the last one that writes its register
\* in the scheduler's table
LastWriter(i) ==
    \A j \in (i + 1)..Len(Flat) : Dest(Flat[j]) # Dest(Flat[i])

\* the bundle that holds instruction i of the flattened schedule
BundleOf(i) ==
    CHOOSE b \in 1..Len(bundles) :
        /\ Len(Flatten(SubSeq(bundles, 1, b - 1))) < i
        /\ i <= Len(Flatten(SubSeq(bundles, 1, b)))

\* C16: an instruction of a kind without execution semantics is accepted
\* by the scheduler, which schedules it with base latency 1 (its register
\* becomes available 1 + size // 10 cycles after its bundle starts, and a
\* returned schedule holds it), and it makes the replay raise the
\* ValueError naming the kind when it is reached: the replay never gets past
\* it, never returns from a schedule that holds it, and hands nothing back.
C16_UnknownKindAborts ==
    /\ \A i \in 1..Len(Flat) :
          (UnknownKind(i) /\ Dest(Flat[i]) # None /\ LastWriter(i)) =>
              reg_avail[Dest(Flat[i])] =
                  Start(BundleOf(i)) + 1 + FloorDiv10(Flat[i][5])
    /\ pc = "done" =>
          \A k \in 1..Len(program) :
              program[k][1] \notin KnownKinds => program[k] \in Range(Flat)
    /\ InReplay =>
          /\ \A i \in 1..ExecutedCount : ~UnknownKind(i)
          /\ rpc = "returned" => \A i \in 1..Len(Flat) : ~UnknownKind(i)
          /\ (rpc = "raised" /\ result.status = "ValueError") =>
                /\ FirstBad > ExecutedCount
                /\ UnknownKind(FirstBad)
                /\ result.detail = Flat[FirstBad][1]
                /\ result.shape = "none"
          /\ (rpc = "raised" /\ FirstBad # 0 /\ UnknownKind(FirstBad)) =>
                result.status = "ValueError"

\* a replay that raised on the unknown kind after it had replayed a bundle
C16_Witness ==
    /\ InReplay
    /\ rpc = "raised"
    /\ result.status = "ValueError"
    /\ result.detail = "NOP"
    /\ next_bundle > 1

\* the value register r holds just before instruction i of the schedule
\* executes, told from the dataflow: the value its last writer before i
\* computed (defined where every instruction before i can be executed)
RECURSIVE RegValue(_, _)
RegValue(i, r) ==
    LET w == CHOOSE j \in 1..(i - 1) :
                 /\ ExecWrites(Flat[j]) = r
                 /\ \A k \in (j + 1)..(i - 1) : ExecWrites(Flat[k]) # r
        op == Flat[w][1]
    IN CASE op = "LOAD" -> inputs[Flat[w][3]]
         [] op = "STORE" -> RegValue(w, Flat[w][2])
         [] op = "ADD" -> RegValue(w, Flat[w][3]) + RegValue(w, Flat[w][4])
         [] op = "SUB" -> RegValue(w, Flat[w][3]) - RegValue(w, Flat[w][4])
         [] op = "MUL" -> RegValue(w, Flat[w][3]) * RegValue(w, Flat[w][4])
         [] OTHER -> RegValue(w, Flat[w][3])

\* the STOREs among the first n instructions of the schedule
StoresUpTo(n) == {i \in 1..n : Flat[i][1] = "STORE"}
LastStore(n) == CHOOSE i \in StoresUpTo(n) : \A j \in StoresUpTo(n) : j <= i

\* C17: OUTPUT holds the value stored by the STORE that comes last in
\* schedule order (bundle order, then the order inside the bundle): after
\* every replayed bundle it is the value that the register of the last
\* STORE replayed so far held when that STORE executed, and that value is
\* the output a run with several STOREs returns, wherever the STOREs stand
\* in the program.
C17_LastStoreWins ==
    (InReplay /\ rpc # "raised" /\ StoresUpTo(ExecutedCount) # {}) =>
        LET last == LastStore(ExecutedCount)
            stored == RegValue(last, Flat[last][2])
        IN /\ "OUTPUT" \in DOMAIN registers
           /\ registers["OUTPUT"] = stored
           /\ rpc = "returned" =>
                 /\ result.shape = "value"
                 /\ result.value = stored

\* a returned run of two STOREs that stored different values, the last one
\* in schedule order standing first in the program
C17_Witness ==
    /\ InReplay
    /\ rpc = "returned"
    /\ \E i, j \in StoresUpTo(Len(Flat)) :
          /\ i < j
          /\ j = LastStore(Len(Flat))
          /\ RegValue(i, Flat[i][2]) # RegValue(j, Flat[j][2])
          /\ \E a, b \in 1..Len(program) :
                a < b /\ program[a] = Flat[j] /\ program[b] = Flat[i]

\* the caller's second call is run_program at a larger width than the first
WiderAgain ==
    /\ call = 2
    /\ entry = "run_program"
    /\ prev.bundle_size < bundle_size

\* none of the first k bundles of the first schedule was closed by reaching
\* the first width
Uncut(k) ==
    \A b \in 1..k : Len(prev.bundles[b][2]) < prev.bundle_size

\* every instruction of the first schedule that writes r stands in its
\* first k bundles
WritersWithin(r, k) ==
    \A b \in 1..Len(prev.bundles) :
        (\E p \in Range(prev.bundles[b][2]) : Dest(p) = r) => b <= k

\* C18: for one program scheduled at W1 and then at W2 > W1: if none of the
\* bundles up to and including a producer's bundle was cut short by
\* reaching W1 instructions, the W2 schedule has the same bundles up to
\* that one (start cycles and instructions), so the producer's register
\* becomes available at the same cycle; and a register all of whose
\* writers stand in such a prefix ends with the same entry in the
\* availability table.
C18_WideningKeepsPrefix ==
    (WiderAgain /\ pc = "done") =>
        \A k \in 1..Len(prev.bundles) :
            Uncut(k) =>
                /\ k <= Len(bundles)
                /\ SubSeq(bundles, 1, k) = SubSeq(prev.bundles, 1, k)
                /\ \A p \in Range(prev.bundles[k][2]) :
                      AvailAt(prev.bundles[k][1], p) = AvailAt(Start(k), p)
                /\ \A r \in DOMAIN prev.reg_avail :
                      WritersWithin(r, k) =>
                          /\ r \in DOMAIN reg_avail
                          /\ reg_avail[r] = prev.reg_avail[r]

\* a program scheduled at width 2, where the width cut a later bundle but
\* not the first one, which writes a register, and then at width 3, where
\* the schedule comes out different
C18_Witness ==
    /\ WiderAgain
    /\ pc = "done"
    /\ prev.bundle_size = 2
    /\ bundle_size = 3
    /\ Len(prev.bundles) >= 2
    /\ Uncut(1)
    /\ \E p \in Range(prev.bundles[1][2]) : Dest(p) # None
    /\ bundles # prev.bundles

\* the caller's second call is run_bundle on the schedule of its first
\* call, run_program, with the same inputs
ReplayedAgain ==
    /\ call = 2
    /\ entry = "run_bundle"
    /\ inputs = prev.inputs
    /\ bundles = prev.bundles

\* C19: the two entry points agree: run_program(program, inputs, W) gives
\* the result, or the failure, that run_bundle gives on the schedule of
\* the same program and width with the same inputs.
C19_EntryPointsAgree ==
    (ReplayedAgain /\ Ended) => result = prev.result

\* the caller replays the schedule for the second time: run_bundle after
\* run_bundle
SecondReplay ==
    /\ call = 3
    /\ entry = "run_bundle"

\* what holds in every state of a second replay
SeparateReplays ==
    SecondReplay =>
        /\ (rpc = "run" /\ next_bundle = 1) => registers = EmptyRegisters
        /\ bundles = prev.bundles
        /\ Ended =>
              /\ result = run_bundle(bundles, inputs)
              /\ registers = ReplayAll(bundles, EmptyRegisters, inputs).regs

\* what a step inside one call leaves alone: the inputs and, once the
\* schedule is returned, the schedule
ReplayFrame ==
    call' = call =>
        /\ inputs' = inputs
        /\ pc = "done" => bundles' = bundles

\* C20: runs do not interfere. A replay of a schedule against inputs B
\* that follows a replay of the same schedule against inputs A starts from
\* an empty register file and returns (or raises) exactly what run_bundle
\* gives for that schedule and B alone; and no step of a replay changes
\* the schedule or the inputs.
C20_RunsDoNotInterfere == []SeparateReplays /\ [][ReplayFrame]_vars

\* a second replay that has returned, after a replay against other inputs
\* that had returned something else
C20_Witness ==
    /\ SecondReplay
    /\ rpc = "returned"
    /\ prev.result.status = "returned"
    /\ inputs # prev.inputs
    /\ result # prev.result
    /\ DOMAIN prev.registers # {}

\* x and an earlier-admitted y of the same bundle are in a hazard: they
\* write the same register (WAW), x reads what y writes (RAW), or x writes
\* what y reads (WAR)
Hazard(x, y) ==
    \/ Dest(x) # None /\ Dest(x) = Dest(y)
    \/ Dest(y) # None /\ Dest(y) \in SrcSet(x)
    \/ Dest(x) # None /\ Dest(x) \in SrcSet(y)

Available(x) ==
    \A r \in SrcSet(x) : r \in DOMAIN reg_avail /\ reg_avail[r] <= current_cycle

\* the positions of the pool, among the first i, that a first-fit scan in
\* pool order admits
RECURSIVE AdmittedUpTo(_)
AdmittedUpTo(i) ==
    IF i = 0 THEN {}
    ELSE LET A == AdmittedUpTo(i - 1)
             x == unscheduled[i]
         IN IF /\ Cardinality(A) < bundle_size
               /\ Available(x)
               /\ \A j \in A : ~Hazard(x, unscheduled[j])
            THEN A \cup {i}
            ELSE A

Admitted == AdmittedUpTo(Len(unscheduled))

\* the elements of seq at the positions in S, from position i on, in order
RECURSIVE Pick(_, _, _)
Pick(seq, S, i) ==
    IF i > Len(seq) THEN <<>>
    ELSE (IF i \in S THEN <<seq[i]>> ELSE <<>>) \o Pick(seq, S, i + 1)

\* one iteration of the scheduling loop, told from the pool it found
FirstFitStep ==
    (pc = "schedule" /\ unscheduled # <<>> /\ call' = call) =>
        /\ unscheduled' = Pick(unscheduled, (1..Len(unscheduled)) \ Admitted, 1)
        /\ bundles' =
              IF Admitted = {} THEN bundles
              ELSE Append(bundles,
                          <<current_cycle, Pick(unscheduled, Admitted, 1)>>)

\* two instructions of one bundle stand in the program in the same order
BundlesInProgramOrder ==
    \A b \in 1..Len(bundles) : \A a, c \in 1..Len(Members(b)) :
        a < c => \E i, j \in 1..Len(program) :
                     /\ i < j
                     /\ program[i] = Members(b)[a]
                     /\ program[j] = Members(b)[c]

\* C21: the bundle built at cycle C is the result of one first-fit scan of
\* the pending pool in its order, which is program order: an instruction
\* is admitted iff, when the scan reaches it, the bundle holds fewer than
\* bundle_size instructions, all its sources are available at C, and it is
\* in no WAW/RAW/WAR hazard with an instruction admitted before it in this
\* scan; the admitted instructions form the bundle, in that order, and the
\* others stay in the pool, in their order.
C21_FirstFitScan == []BundlesInProgramOrder /\ [][FirstFitStep]_vars

\* after a first bundle, a scan that admits an instruction and leaves one
\* that is ready, reached with room in the bundle, but in a hazard with an
\* admitted one
C21_Witness ==
    /\ pc = "schedule"
    /\ bundles # <<>>
    /\ Admitted # {}
    /\ \E i \in (1..Len(unscheduled)) \ Admitted :
          /\ Available(unscheduled[i])
          /\ Cardinality(AdmittedUpTo(i - 1)) < bundle_size
          /\ \E j \in AdmittedUpTo(i - 1) :
                Hazard(unscheduled[i], unscheduled[j])


(***************************************************************************)
(* C22: closing a non-empty bundle.                                        *)
(***************************************************************************)
\* the step appended a bundle to the schedule
BundleClosed == Len(bundles') = Len(bundles) + 1

\* the destinations of a bundle's instructions
DestsOf(bundle) == {Dest(bundle[i]) : i \in 1..Len(bundle)} \ {None}

\* m is the largest latency among the bundle's instructions
IsMaxLatency(m, bundle) ==
    /\ \E i \in 1..Len(bundle) : compute_latency(bundle[i]) = m
    /\ \A i \in 1..Len(bundle) : compute_latency(bundle[i]) <= m

CloseStep ==
    BundleClosed =>
        LET C == current_cycle
            closed == bundles'[Len(bundles')]
            bundle == closed[2]
        IN /\ bundle # <<>>
           /\ closed[1] = C
           /\ SubSeq(bundles', 1, Len(bundles)) = bundles
           /\ \A i \in 1..Len(bundle) :
                 Dest(bundle[i]) # None =>
                    /\ Dest(bundle[i]) \in DOMAIN reg_avail'
                    /\ reg_avail'[Dest(bundle[i])]
                          = C + compute_latency(bundle[i])
           /\ IsMaxLatency(current_cycle' - C, bundle)
           /\ DOMAIN reg_avail' = DOMAIN reg_avail \cup DestsOf(bundle)
           /\ \A r \in DOMAIN reg_avail \ DestsOf(bundle) :
                 reg_avail'[r] = reg_avail[r]

\* C22: a step that closes a bundle at cycle C appends (C, bundle) with a
\* non-empty bundle, sets the availability of each destination to C plus
\* the writing instruction's own latency, advances the cycle counter by
\* the largest latency of the bundle, and leaves the availability of every
\* other register as it was.
C22_CloseBundle == [][CloseStep]_vars

\* a bundle has just been closed in which a destination became available
\* before the bundle's end, next to a register the bundle did not write
C22_Witness ==
    /\ pc = "schedule"
    /\ stalls = 0
    /\ bundles # <<>>
    /\ LET b == Len(bundles) IN
        /\ IsMaxLatency(current_cycle - Start(b), Members(b))
        /\ \E i \in 1..Len(Members(b)) :
              /\ Dest(Members(b)[i]) # None
              /\ reg_avail[Dest(Members(b)[i])]
                    = Start(b) + compute_latency(Members(b)[i])
              /\ reg_avail[Dest(Members(b)[i])] < current_cycle
        /\ DOMAIN reg_avail \ DestsOf(Members(b)) # {}

(***************************************************************************)
(* C23: the availability table before the first iteration.                 *)
(***************************************************************************)
\* schedule_instructions stands before the first iteration of its loop
AtEntry ==
    /\ pc = "schedule"
    /\ bundles = <<>>
    /\ current_cycle = 0
    /\ stalls = 0
    /\ unscheduled = program

\* the operands an instruction reads, told from its fields: the operand of
\* a STORE stands in the destination field
ReadOperands(instr) ==
    IF instr[1] = "STORE" THEN {instr[2]}
    ELSE {instr[3], instr[4]} \ {None}

\* the registers some instruction other than a STORE writes
WrittenRegs == {program[i][2] : i \in {j \in DOMAIN program :
                                          program[j][1] # "STORE"}}

ReadRegs == UNION {ReadOperands(program[i]) : i \in DOMAIN program}

\* C23: before the first iteration the availability table holds exactly the
\* registers that are read as a source, a STORE's operand included, and
\* written by no instruction other than a STORE, each at cycle 0; no
\* register written by an instruction other than a STORE is in the table.
C23_InitialTable ==
    AtEntry =>
        /\ DOMAIN reg_avail = ReadRegs \ WrittenRegs
        /\ \A r \in DOMAIN reg_avail : reg_avail[r] = 0
        /\ DOMAIN reg_avail \cap WrittenRegs = {}

\* at entry, a STORE's operand that nothing writes is in the table, and a
\* register that is both written and read is not
C23_Witness ==
    /\ AtEntry
    /\ \E i \in DOMAIN program :
          /\ program[i][1] = "STORE"
          /\ program[i][2] \in DOMAIN reg_avail
          /\ reg_avail[program[i][2]] = 0
    /\ ReadRegs \cap WrittenRegs # {}

(***************************************************************************)
(* C24: replay against execution in program order.                         *)
(***************************************************************************)
\* the registers an instruction of the program reads: a LOAD's operand is
\* an input key, not a register
ProgReads(instr) == IF instr[1] = "LOAD" THEN {} ELSE ReadOperands(instr)

\* instruction i of the program writes register r
Writes(i, r) == program[i][1] # "STORE" /\ program[i][2] = r

SingleWriter ==
    \A i, j \in DOMAIN program, r \in WrittenRegs :
        Writes(i, r) /\ Writes(j, r) => i = j

ReadersAfterWriter ==
    \A i, j \in DOMAIN program :
        (\E r \in ProgReads(program[i]) : Writes(j, r)) => j < i

KeysSupplied ==
    \A i \in DOMAIN program :
        program[i][1] = "LOAD" => program[i][3] \in DOMAIN inputs

\* every register that is read has a writer, and every kind can be executed
EveryReadWritten ==
    \A i \in DOMAIN program : ProgReads(program[i]) \subseteq WrittenRegs
EveryKindKnown ==
    \A i \in DOMAIN program : program[i][1] \in KnownKinds

\* the instructions one at a time in program order, from the empty file
InProgramOrder == ExecSeq(program, EmptyRegisters, inputs)

\* the replay is over, without failure, and every written register holds
\* what execution in program order leaves in it
ReplayedAsInProgramOrder ==
    /\ rpc = "returned"
    /\ InProgramOrder.status = "ok"
    /\ \A r \in WrittenRegs :
          /\ r \in DOMAIN registers
          /\ registers[r] = InProgramOrder.regs[r]

\* C24 as stated: for a program in which every register has at most one
\* writer, every reader of a register comes after its writer, and every
\* LOAD key is supplied, the replay of the schedule for a width of at
\* least 1 ends without failure and leaves in every written register the
\* value of execution in program order.
C24_ReplayMatchesProgramOrder ==
    (Ended /\ bundle_size >= 1
        /\ SingleWriter /\ ReadersAfterWriter /\ KeysSupplied)
      => ReplayedAsInProgramOrder

\* C24, amended: the same, for programs in which moreover every register
\* that is read is written by some instruction and every instruction is of
\* a kind that can be executed.
C24_ReplayMatchesWhenResolved ==
    (Ended /\ bundle_size >= 1
        /\ SingleWriter /\ ReadersAfterWriter /\ KeysSupplied
        /\ EveryReadWritten /\ EveryKindKnown)
      => ReplayedAsInProgramOrder

\* a replay that ended for such a program, whose schedule is not in program
\* order and which computed a register from another one
C24_Witness ==
    /\ Ended /\ bundle_size >= 1
    /\ SingleWriter /\ ReadersAfterWriter /\ KeysSupplied
    /\ EveryReadWritten /\ EveryKindKnown
    /\ Flat # program
    /\ \E i \in DOMAIN program :
          program[i][1] = "ADD" /\ registers[program[i][2]] = 6

(***************************************************************************)
(* C25: the output of run_program at two widths.                           *)
(***************************************************************************)
\* the second run_program call, on the same program and inputs, has ended;
\* both calls had a width of at least 1
RanAtTwoWidths ==
    /\ call = 2
    /\ entry = "run_program"
    /\ Ended
    /\ prev.bundle_size >= 1

StoreCount == Cardinality({i \in DOMAIN program : program[i][1] = "STORE"})

\* C25 as stated: for a program in which every register has at most one
\* writer, the dependencies are acyclic and every LOAD key is supplied,
\* run_program returns the same output at every width of at least 1.
C25_OutputSameAtAnyWidth ==
    (RanAtTwoWidths /\ SingleWriter /\ Acyclic(program) /\ KeysSupplied)
      => result = prev.result

\* C25, amended: the same, for programs that moreover hold at most one
\* STORE, read no register that nothing writes, and hold no instruction of
\* a kind that cannot be executed; both calls then return.
C25_OutputSameWithOneStore ==
    (RanAtTwoWidths /\ SingleWriter /\ Acyclic(program) /\ KeysSupplied
        /\ StoreCount <= 1 /\ EveryReadWritten /\ EveryKindKnown)
      => /\ result.status = "returned"
         /\ result = prev.result

\* such a program was run at a width and then at a larger one, the two
\* schedules differ, and both calls returned the same stored value
C25_Witness ==
    /\ RanAtTwoWidths
    /\ SingleWriter /\ Acyclic(program) /\ KeysSupplied
    /\ StoreCount = 1 /\ EveryReadWritten /\ EveryKindKnown
    /\ prev.bundle_size < bundle_size
    /\ prev.bundles # bundles
    /\ result.shape = "value"
    /\ result = prev.result

(***************************************************************************)
(* C26: the order of execution inside a bundle.                            *)
(***************************************************************************)
\* the orders in which n instructions can be executed
Orders(n) ==
    {f \in [1..n -> 1..n] : \A i, j \in 1..n : f[i] = f[j] => i = j}

Reordered(bundle, f) == [i \in 1..Len(bundle) |-> bundle[f[i]]]

\* the replay stands before a bundle that executes without failure
BeforeBundle ==
    /\ Replaying
    /\ next_bundle <= Len(bundles)
    /\ ExecSeq(Members(next_bundle), registers, inputs).status = "ok"

StoresIn(bundle) ==
    Cardinality({i \in 1..Len(bundle) : bundle[i][1] = "STORE"})

\* every order of the bundle's instructions leaves the register file that
\* the bundle's own order leaves
AnyOrderSameFile ==
    LET bundle == Members(next_bundle) IN
    \A f \in Orders(Len(bundle)) :
        ExecSeq(Reordered(bundle, f), registers, inputs)
            = ExecSeq(bundle, registers, inputs)

NonNegativeLatencies ==
    \A i \in DOMAIN program : compute_latency(program[i]) >= 0

TableNotAhead ==
    \A r \in DOMAIN reg_avail : reg_avail[r] <= current_cycle

\* a pending instruction all of whose sources are in the table
SourcesInTable(x) == ReadOperands(x) \subseteq DOMAIN reg_avail

\* the step is an iteration that took the stall branch
StallStep ==
    /\ pc = "schedule"
    /\ unscheduled # <<>>
    /\ pc' = "schedule"
    /\ Len(bundles') = Len(bundles)

\* a stall changes the cycle counter, by one, and nothing else
OnlyTheCycle ==
    /\ current_cycle' = current_cycle + 1
    /\ UNCHANGED <<program, inputs, bundle_size, reg_avail, unscheduled,
                   bundles>>

\* the iteration before this one stalled
AfterStall == pc = "schedule" /\ stalls > 0

StallsAsStated ==
    NonNegativeLatencies =>
        /\ StallStep =>
              /\ \A i \in DOMAIN unscheduled : ~SourcesInTable(unscheduled[i])
              /\ OnlyTheCycle
        /\ AfterStall => bundles' = bundles

StallsAtWidth ==
    NonNegativeLatencies =>
        /\ StallStep =>
              /\ bundle_size >= 1 =>
                    \A i \in DOMAIN unscheduled :
                        ~SourcesInTable(unscheduled[i])
              /\ OnlyTheCycle
        /\ AfterStall => bundles' = bundles

\* C27 as stated: for non-negative latencies, at the head of every
\* iteration no table entry exceeds the cycle counter; an iteration stalls
\* only if no pending instruction has all its sources in the table; a
\* stall changes only the cycle counter, by one; after a stall no later
\* iteration closes a bundle.
C27_StallsForGood ==
    /\ [](pc = "schedule" /\ NonNegativeLatencies => TableNotAhead)
    /\ [][StallsAsStated]_vars

\* C27, amended: the same, where "only if no pending instruction has all
\* its sources in the table" is said of widths of at least 1.
C27_StallsForGoodAtWidth ==
    /\ [](pc = "schedule" /\ NonNegativeLatencies => TableNotAhead)
    /\ [][StallsAtWidth]_vars

\* two stalls in a row at a width of at least 1, with an entry in the
\* table, and no pending instruction has all its sources in the table
C27_Witness ==
    /\ pc = "schedule"
    /\ NonNegativeLatencies
    /\ bundle_size >= 1
    /\ stalls >= 2
    /\ current_cycle >= 2
    /\ DOMAIN reg_avail # {}
    /\ TableNotAhead
    /\ \A i \in DOMAIN unscheduled : ~SourcesInTable(unscheduled[i])

(***************************************************************************)
(* C28: no bundle of a schedule is empty.                                  *)
(***************************************************************************)
\* the latencies the executor takes the maximum of for bundle b
LatenciesOf(b) == {compute_latency(x) : x \in Range(Members(b))}

\* the scheduler stalled between bundle b and the next one
StalledAfter(b) ==
    /\ b < Len(bundles)
    /\ Start(b + 1) > Start(b) + BundleLatency(Members(b))

\* C28: every bundle of the schedule, while it is built and when it is
\* returned, holds at least one instruction, so the maximum over the
\* latencies of a bundle is taken over a non-empty set.
C28_NoEmptyBundle ==
    \A b \in 1..Len(bundles) :
        /\ Len(Members(b)) >= 1
        /\ LatenciesOf(b) # {}

\* a returned schedule built with a stall between two of its bundles
C28_Witness ==
    /\ pc = "done"
    /\ \E b \in 1..Len(bundles) : StalledAfter(b)
    /\ \A b \in 1..Len(bundles) : Len(Members(b)) >= 1

(***************************************************************************)
(* C29: the clock of the replay against the start cycles of the schedule.  *)
(* The runs of SpecClock hold a LOAD of negative latency, after which the  *)
(* scheduler stalls before the next bundle, so that the replay has to wait.*)
(***************************************************************************)
MaxClockLen == 3     \* longest program of ClockPrograms
MaxClockWidth == 2   \* largest bundle_size of ClockWidths

ClockInstrs ==
    {<<"LOAD", "R1", "a", None, 16>>,
     <<"LOAD", "R2", "b", None, -40>>,
     <<"STORE", "R1", None, None, 1>>,
     <<"STORE", "R2", None, None, 1>>}

ClockPrograms ==
    {p \in UNION {[1..n -> ClockInstrs] : n \in 0..MaxClockLen} :
        \A i, j \in 1..Len(p) : i # j => p[i] # p[j]}
ClockWidths == 0..MaxClockWidth

InitClock ==
    /\ variant = "execute"
    /\ program \in ClockPrograms
    /\ inputs = RunInputs
    /\ bundle_size \in ClockWidths
    /\ ScheduleEntry(program)
    /\ call = 1
    /\ entry = "run_program"
    /\ registers = RunnerEntry(EmptyRegisters)
    /\ run_cycle = 0
    /\ next_bundle = 1
    /\ rpc = "run"
    /\ result = NoResult
    /\ prev = NoPrev

SpecClock == InitClock /\ [][NextRun]_vars

\* the replay is about to execute a bundle; the one before it, if any, ran
\* to its end
AtBundle == Replaying /\ next_bundle <= Len(bundles)

\* the clock at the moment the bundle is executed, after the wait
ClockAtBundle == WaitUntil(run_cycle, Start(next_bundle))

\* the replay ran through the whole schedule
ReplayedThrough ==
    /\ pc = "done"
    /\ rpc \in {"run", "returned"}
    /\ bundles # <<>>
    /\ next_bundle > Len(bundles)

\* C29: in a replay of the schedule, the clock is not ahead of the start
\* cycle of the bundle that is executed next, and is at that start cycle
\* when the bundle is executed; after the last bundle the clock is at that
\* bundle's start cycle plus its largest latency.
C29_ClockFollowsSchedule ==
    /\ AtBundle =>
          /\ run_cycle <= Start(next_bundle)
          /\ ClockAtBundle = Start(next_bundle)
    /\ ReplayedThrough =>
          run_cycle = Start(Len(bundles))
                        + BundleLatency(Members(Len(bundles)))

\* a replay that went through a schedule of three bundles and had to wait
\* for the last one: the bundle before it ended a cycle early
C29_Witness ==
    /\ ReplayedThrough
    /\ Len(bundles) = 3
    /\ Start(2) + BundleLatency(Members(2)) < Start(3)
    /\ run_cycle = Start(3) + BundleLatency(Members(3))

(***************************************************************************)
(* C30: the caller's program across calls.                                 *)
(***************************************************************************)
\* the schedule holds each instruction as often as seq does
SameInstructions(bs, seq) ==
    /\ Len(Flatten(bs)) = Len(seq)
    /\ \A x \in Range(seq) : Count(Flatten(bs), x) = Count(seq, x)

\* the scheduler of the second run_program call has returned
ScheduledAgain == call = 2 /\ entry = "run_program" /\ pc = "done"

\* C30: no step of schedule_instructions, nor of a runner, changes the
\* caller's program; so the second run_program call schedules the very
\* instructions the first one scheduled, each as often as the program
\* holds it.
C30_ProgramKept ==
    /\ [][program' = program]_vars
    /\ [](ScheduledAgain =>
            /\ SameInstructions(bundles, program)
            /\ SameInstructions(prev.bundles, program))

\* a second run_program call at a larger width has scheduled the whole
\* program, into a schedule other than the first
C30_Witness ==
    /\ ScheduledAgain
    /\ prev.bundle_size >= 1
    /\ prev.bundle_size < bundle_size
    /\ Len(program) >= 2
    /\ bundles # prev.bundles
    /\ SameInstructions(bundles, program)
    /\ SameInstructions(prev.bundles, program)

(***************************************************************************)
(* C31: a width of 0 or less, and the empty program.                       *)
(***************************************************************************)
\* schedule_instructions is in its loop, or has returned, for a non-empty
\* program at a width of 0 or less
NoRoom == bundle_size <= 0 /\ program # <<>>

\* nothing was admitted so far: the pool is the program, the schedule is
\* empty, the table is the initial one, and every iteration so far stalled
NothingAdmitted ==
    /\ pc = "schedule"
    /\ unscheduled = program
    /\ bundles = <<>>
    /\ reg_avail = InitialAvail(program)
    /\ current_cycle = stalls

\* the iteration that starts here admits nothing
ScanAdmitsNothing == Scan[1] = <<>> /\ Scan[2] = unscheduled

\* a step of the loop at such a width is a stall
NoRoomStep ==
    (NoRoom /\ pc = "schedule") =>
        /\ pc' = "schedule"
        /\ bundles' = <<>>
        /\ unscheduled' = unscheduled
        /\ current_cycle' = current_cycle + 1

\* for the empty program the first test of `while unscheduled` fails and
\* the empty schedule is returned
EmptyProgramStep ==
    (program = <<>> /\ pc = "schedule") =>
        /\ pc' = "done"
        /\ bundles' = <<>>

\* C31: at a width of 0 or less and a non-empty program, no iteration
\* admits an instruction, every step of the loop is a stall, no bundle is
\* ever emitted and the call never returns; for the empty program the
\* call returns the empty schedule, at any width.
C31_NoRoomNeverReturns ==
    /\ [](NoRoom => NothingAdmitted /\ ScanAdmitsNothing)
    /\ [](program = <<>> => bundles = <<>> /\ unscheduled = <<>>)
    /\ [][NoRoomStep /\ EmptyProgramStep]_vars

\* at a negative width the loop has stalled as often as the model follows
\* it, although an instruction of the pool has all its sources available
C31_Witness ==
    /\ NoRoom
    /\ bundle_size < 0
    /\ stalls = MaxStalls
    /\ NothingAdmitted
    /\ \E i \in DOMAIN unscheduled : Available(unscheduled[i])
====
